---- MODULE Spec2Model ----
(***************************************************************************)
(* kings-walk (src/src/main.rs): a hill-climbing solver for a Hidato-style *)
(* puzzle on an n x n board.  State { board, n, assignments } is built by  *)
(* State::new and mutated by random_start, step and hillclimb.             *)
(*                                                                         *)
(* Board indices are the code's 0-based indices; a board is a TLA+         *)
(* sequence, so cell idx of board b is b[idx + 1].                         *)
(***************************************************************************)
EXTENDS Integers, Sequences, FiniteSets, TLC

VARIABLES
  input,        \* argument `board` of State::new (kept for reference)
  argN,         \* argument `n` of State::new
  result,       \* "none" before State::new ran, then "Ok", "Err" or "Panic"
  board,        \* State.board
  n,            \* State.n
  assignments,  \* State.assignments (0-based board indices)
  pc,           \* position inside hillclimb, "idle" outside of it
  high_score,   \* hillclimb's local high_score
  round,        \* hillclimb's local round
  lastOp,       \* the call that completed last
  lastArg,      \* its argument (start_score of step)
  lastRet,      \* its return value
  lastBoard,    \* the board when that call started
  restarted,    \* whether the current/last hillclimb run made a restart
  commits       \* swaps step has applied (line 182) in the stepping loop
                \* of lines 193-200 that is running; 0 outside of it

vars == <<input, argN, result, board, n, assignments, pc, high_score, round,
          lastOp, lastArg, lastRet, lastBoard, restarted, commits>>

----------------------------------------------------------------------------
(* Bounds of the model *)

\* most empty cells of an input the search actions are explored on
MaxZeros == 3
\* raw values of rng.gen::<usize>() range over 0..MaxRaw
MaxRaw == 5

\* the number of values of a u8 (board: Vec<u8>)
U8 == 256

----------------------------------------------------------------------------
(* Helpers *)

Range(s) == { s[i] : i \in 1..Len(s) }

\* Vec::swap(i, j) on 0-based indices
Swap(b, i, j) == [b EXCEPT ![i + 1] = b[j + 1], ![j + 1] = b[i + 1]]

----------------------------------------------------------------------------
(* State::new, lines 41-78 *)

\* first loop, lines 56-60: the indices of the zeros, in scan order (idx
\* is where the scan starts)
ScanZeros(b, idx) ==
  SelectSeq([i \in 1..(Len(b) - idx) |-> idx + i - 1],
            LAMBDA at : b[at + 1] = 0)

\* first loop, line 62: the indices of `seen` set to true (0 included)
SeenValues(b) == Range(b)

\* Advance without the loop of lines 69-71
AdvanceNoSkip(next_unseen, seen, nn) == next_unseen

\* lines 69-71: while seen[next_unseen] { next_unseen += 1 }: the cursor
\* stops at the first value from next_unseen on that is not seen; seen has
\* the indices 0..nn, so a cursor above nn is an out-of-bounds read
Advance(next_unseen, seen, nn) ==
  IF next_unseen > nn THEN next_unseen
  ELSE CHOOSE c \in next_unseen..(nn + 1) :
         /\ c > nn \/ c \notin seen
         /\ \A d \in next_unseen..(c - 1) : d \in seen

RECURSIVE Fill(_, _, _, _, _, _)

\* Assign without line 75 (next_unseen += 1)
AssignNoAdvance(b, asg, i, c, seen, nn) ==
  IF c > nn
  THEN [tag |-> "Panic", board |-> <<>>]
  ELSE Fill([b EXCEPT ![asg[i] + 1] = c % U8], asg, i + 1, c, seen, nn)

\* lines 73-75: write the value the cursor c stopped at (as u8), move on
Assign(b, asg, i, c, seen, nn) ==
  IF c > nn
  THEN [tag |-> "Panic", board |-> <<>>]
  ELSE Fill([b EXCEPT ![asg[i] + 1] = c % U8], asg, i + 1, c + 1, seen, nn)

\* Fill without the second loop: the empty cells keep their 0
FillNothing(b, asg, i, next_unseen, seen, nn) == [tag |-> "Ok", board |-> b]

\* second loop, lines 66-76, from the i-th entry of assignments on
Fill(b, asg, i, next_unseen, seen, nn) ==
  IF i > Len(asg) THEN [tag |-> "Ok", board |-> b]
  ELSE Assign(b, asg, i, Advance(next_unseen, seen, nn), seen, nn)

\* NewState with the length check made after the scan of the values
NewStateScanFirst(b, nArg) ==
  IF \E v \in Range(b) : v > nArg * nArg
  THEN [tag |-> "Panic", board |-> <<>>, n |-> 0, assignments |-> <<>>]
  ELSE IF Len(b) # nArg * nArg
       THEN [tag |-> "Err", board |-> <<>>, n |-> 0, assignments |-> <<>>]
       ELSE [tag |-> "Ok", n |-> nArg, assignments |-> ScanZeros(b, 0),
             board |-> Fill(b, ScanZeros(b, 0), 1, 1, SeenValues(b),
                            nArg * nArg).board]

\* NewState refusing an input in which a nonzero value occurs twice
NewStateDistinct(b, nArg) ==
  IF \/ Len(b) # nArg * nArg
     \/ \E i, j \in 1..Len(b) : i # j /\ b[i] # 0 /\ b[i] = b[j]
  THEN [tag |-> "Err", board |-> <<>>, n |-> 0, assignments |-> <<>>]
  ELSE IF \E v \in Range(b) : v > nArg * nArg
       THEN [tag |-> "Panic", board |-> <<>>, n |-> 0, assignments |-> <<>>]
       ELSE [tag |-> "Ok", n |-> nArg, assignments |-> ScanZeros(b, 0),
             board |-> Fill(b, ScanZeros(b, 0), 1, 1, SeenValues(b),
                            nArg * nArg).board]

\* State::new(board, n): the Result and, when Ok, the State's fields
NewState(b, nArg) ==
  IF Len(b) # nArg * nArg
  THEN [tag |-> "Err", board |-> <<>>, n |-> 0, assignments |-> <<>>]
  ELSE IF \E v \in Range(b) : v > nArg * nArg
       \* line 62 indexes seen (length n*n+1) with the value
       THEN [tag |-> "Panic", board |-> <<>>, n |-> 0, assignments |-> <<>>]
       ELSE LET asg == ScanZeros(b, 0)
                f   == Fill(b, asg, 1, 1, SeenValues(b), nArg * nArg)
            IN  IF f.tag = "Ok"
                THEN [tag |-> "Ok", board |-> f.board, n |-> nArg,
                      assignments |-> asg]
                ELSE [tag |-> "Panic", board |-> <<>>, n |-> 0,
                      assignments |-> <<>>]

----------------------------------------------------------------------------
(* State::score and State::max_score, lines 101-156 *)

\* the widths the search is explored on
Sizes == 1..3

\* the least width whose n*n no longer fits a u8
WideSize == CHOOSE nn \in 1..U8 : nn * nn >= U8 /\ (nn - 1) * (nn - 1) < U8

AllSizes == Sizes \cup {WideSize}

\* Neighbors without the right-alignment test of line 131
NeighborsWrap(idx, nn) ==
  <<idx + nn>>
  \o (IF idx % nn # 0 THEN <<idx + nn - 1>> ELSE <<>>)
  \o <<idx + 1, idx + nn + 1>>

\* lines 124-136: the forward neighbour indices of idx, in push order
Neighbors(idx, nn) ==
  <<idx + nn>>
  \o (IF idx % nn # 0 THEN <<idx + nn - 1>> ELSE <<>>)
  \o (IF idx % nn # nn - 1 THEN <<idx + 1, idx + nn + 1>> ELSE <<>>)

\* every <<idx, i, neighbor>> the loops of lines 119-139 visit on a board of
\* width nn: neighbor is the i-th entry of the list built for idx
NeighborSlots(nn) ==
  UNION { { <<idx, i, Neighbors(idx, nn)[i]>> :
              i \in 1..Len(Neighbors(idx, nn)) } : idx \in 0..(nn * nn - 1) }

\* the slots per width, computed once
NeighborTable == [nn \in AllSizes |-> NeighborSlots(nn)]

\* lines 107-112: helper's test of one neighbour value x, in u8 arithmetic
\* (wrapping)
helper(goal, x) == x = (goal + 1) % U8 \/ x = (goal + U8 - 1) % U8

\* lines 118-150: total counts, over every position idx of the board and
\* every neighbour of idx that board.get finds (line 142), the neighbours
\* helper accepts
score(b, nn) ==
  Cardinality({ t \in NeighborTable[nn] :
                  /\ t[1] < Len(b)
                  /\ t[3] < Len(b)
                  /\ helper(b[t[1] + 1], b[t[3] + 1]) })

max_score(b) == Len(b) - 1

\* lines 107-108: goal + 1 or goal - 1 leaves the u8 range for some cell (a
\* panic where overflow is checked, a wrapped value elsewhere)
Overflows(b) == \E i \in 1..Len(b) : b[i] = U8 - 1 \/ b[i] = 0

----------------------------------------------------------------------------
(* State::random_start, lines 81-99 *)

\* Residues with the draw taken modulo x + 1
ResiduesInclusive(x) == { r % (x + 1) : r \in 0..MaxRaw }

\* line 89: the values rng.gen::<usize>() % x can take
Residues(x) == { r % x : r \in 0..MaxRaw }

\* lines 85-91: the vectors `swaps` can be, for the moduli x, x-1, .., 1
\* ((1..len).rev() is empty when len <= 1)
RECURSIVE SwapSeqs(_)
SwapSeqs(x) ==
  IF x < 1 THEN { <<>> }
  ELSE { <<d>> \o rest : d \in Residues(x), rest \in SwapSeqs(x - 1) }

\* SwapTargets with idx1 used as a board index, not through assignments
SwapTargetsDirect(asg, idx1, idx2) == <<idx1, asg[idx2 + idx1 + 1]>>

\* lines 94-95: the two board indices of the swap made for (idx1, idx2)
SwapTargets(asg, idx1, idx2) == <<asg[idx1 + 1], asg[idx2 + idx1 + 1]>>

\* lines 92-97, from entry idx1 of swaps on (each intermediate board is
\* bound once, as the one element of a set)
RECURSIVE ApplySwaps(_, _, _, _)
ApplySwaps(b, asg, swaps, idx1) ==
  IF idx1 >= Len(swaps) THEN b
  ELSE CHOOSE out \in
         { ApplySwaps(swapped, asg, swaps, idx1 + 1) :
             swapped \in { Swap(b, t[1], t[2]) :
                             t \in { SwapTargets(asg, idx1, swaps[idx1 + 1]) } } } :
         TRUE

\* the boards one call of random_start can leave
RandomStartBoards(b, asg) ==
  { ApplySwaps(b, asg, swaps, 0) : swaps \in SwapSeqs(Len(asg) - 1) }

----------------------------------------------------------------------------
(* State::step, lines 158-185 *)

\* lines 164-166: the pairs (idx1, idx2) in the order the loops visit them
RECURSIVE PairsFrom(_, _, _)
PairsFrom(asg, prev, k) ==
  IF prev >= Len(asg) THEN <<>>
  ELSE IF k >= Len(asg) THEN PairsFrom(asg, prev + 1, prev + 2)
       ELSE <<<<asg[prev + 1], asg[k + 1]>>>> \o PairsFrom(asg, prev, k + 1)

\* Pairs with the outer loop of line 164 left after its first round
PairsFirstRound(asg) == SubSeq(PairsFrom(asg, 0, 1), 1, Len(asg) - 1)

Pairs(asg) == PairsFrom(asg, 0, 1)

NoSwap == <<>>

\* Keep without line 177 (the swap back)
KeepNoUndo(acc, swapped, pair, sc) ==
  [board      |-> swapped,
   high_score |-> IF sc > acc.high_score THEN sc ELSE acc.high_score,
   new_board  |-> IF sc > acc.high_score THEN pair ELSE acc.new_board]

\* Keep with score >= high_score for the test of line 172
KeepTies(acc, swapped, pair, sc) ==
  [board      |-> Swap(swapped, pair[1], pair[2]),
   high_score |-> IF sc >= acc.high_score THEN sc ELSE acc.high_score,
   new_board  |-> IF sc >= acc.high_score THEN pair ELSE acc.new_board]

\* lines 172-177: keep the trial's score if it is better, and swap back
Keep(acc, swapped, pair, sc) ==
  [board      |-> Swap(swapped, pair[1], pair[2]),
   high_score |-> IF sc > acc.high_score THEN sc ELSE acc.high_score,
   new_board  |-> IF sc > acc.high_score THEN pair ELSE acc.new_board]

\* line 171: the score of the board with the trial swap made
Scored(acc, swapped, pair, nn) ==
  CHOOSE kept \in { Keep(acc, swapped, pair, sc) : sc \in { score(swapped, nn) } } :
    TRUE

\* lines 168-177: one trial; acc holds board, high_score and new_board
Trial(acc, pair, nn) ==
  CHOOSE kept \in { Scored(acc, swapped, pair, nn) :
                      swapped \in { Swap(acc.board, pair[1], pair[2]) } } :
    TRUE

RECURSIVE Scan(_, _, _, _)
Scan(acc, pairs, i, nn) ==
  IF i > Len(pairs) THEN acc
  ELSE CHOOSE out \in { Scan(t, pairs, i + 1, nn) :
                          t \in { Trial(acc, pairs[i], nn) } } :
         TRUE

\* Commit without lines 181-183: the recorded swap is not applied
CommitNoSwap(acc) ==
  [board |-> acc.board,
   ret   |-> acc.high_score]

\* lines 181-184: apply the recorded swap, return high_score
Commit(acc) ==
  [board |-> IF acc.new_board # NoSwap
             THEN Swap(acc.board, acc.new_board[1], acc.new_board[2])
             ELSE acc.board,
   ret   |-> acc.high_score]

\* step with high_score initialised to 0 instead of start_score (line 161)
stepFromZero(b, nn, asg, start_score) ==
  CHOOSE r \in
    { Commit(acc) :
        acc \in { Scan([board |-> b, high_score |-> 0, new_board |-> NoSwap],
                       pairs, 1, nn) : pairs \in { Pairs(asg) } } } :
    TRUE

\* step(start_score): the board it leaves and the value it returns
step(b, nn, asg, start_score) ==
  CHOOSE r \in
    { Commit(acc) :
        acc \in { Scan([board |-> b, high_score |-> start_score,
                        new_board |-> NoSwap],
                       pairs, 1, nn) : pairs \in { Pairs(asg) } } } :
    TRUE

----------------------------------------------------------------------------
(* Inputs *)

\* boards of width 3 the inputs are cut from: the solved board and the
\* constructed board of the tests, and the row-major board
Bases3 ==
  { <<3, 4, 1, 8, 2, 5, 9, 7, 6>>,
    <<3, 4, 1, 5, 2, 6, 9, 7, 8>>,
    <<1, 2, 3, 4, 5, 6, 7, 8, 9>> }

Perms(m) ==
  { f \in [1..m -> 1..m] : \A i, j \in 1..m : f[i] = f[j] => i = j }

Bases(nn) == IF nn <= 2 THEN Perms(nn * nn) ELSE Bases3

Zeroed(base, Z) == [i \in 1..Len(base) |-> IF i \in Z THEN 0 ELSE base[i]]

AllCells(nn) == 1..(nn * nn)

\* the cells (1-based) the search actions are explored with as empty cells:
\* any cell for widths 1 and 2, the empty cells of the tests' puzzle
\* [0,0,1,0,2,0,9,0,0] for width 3
PuzzleCells(nn) == IF nn <= 2 THEN AllCells(nn) ELSE {1, 2, 4, 6, 8, 9}

\* valid inputs of width nn whose zeros are at most z of the given cells:
\* length nn*nn, values in 0..nn*nn, the nonzero ones pairwise distinct
ValidInputs(nn, cells, z) ==
  { Zeroed(base, Z) : base \in Bases(nn),
                      Z \in { Y \in SUBSET cells : Cardinality(Y) <= z } }

\* the puzzle of the tests (width 3)
PuzzleInput == <<0, 0, 1, 0, 2, 0, 9, 0, 0>>

\* valid inputs of width WideSize: the values 1..255 in row-major order
\* around one empty cell, the first or the last
WideInputs ==
  { [i \in 1..(WideSize * WideSize) |-> IF i = 1 THEN 0 ELSE i - 1],
    [i \in 1..(WideSize * WideSize) |->
       IF i = WideSize * WideSize THEN 0 ELSE i] }

\* inputs of a wrong length: one value short, or one value (255) too many
BadLengthInputs(nn, cells, z) ==
  { SubSeq(v, 1, Len(v) - 1) : v \in ValidInputs(nn, cells, z) }
  \cup { Append(v, 255) : v \in ValidInputs(nn, cells, z) }

Inputs(nn, cells, z) ==
  ValidInputs(nn, cells, z) \cup BadLengthInputs(nn, cells, z)

\* inputs of the right length with entries in 0..nn*nn, repeated values
\* allowed: every such input for widths 1 and 2, and for width 3 the valid
\* inputs with any one entry replaced by any value
AnyInputs(nn) ==
  IF nn <= 2 THEN [1..(nn * nn) -> 0..(nn * nn)]
  ELSE { [v EXCEPT ![i] = x] :
           v \in ValidInputs(nn, PuzzleCells(nn), MaxZeros),
           i \in 1..(nn * nn), x \in 0..(nn * nn) }

----------------------------------------------------------------------------
(* The state machine *)

InitWith(in) ==
  /\ argN \in AllSizes
  /\ input \in in[argN]
  /\ result = "none"
  /\ board = <<>>
  /\ n = 0
  /\ assignments = <<>>
  /\ pc = "idle"
  /\ high_score = 0
  /\ round = 0
  /\ lastOp = "none"
  /\ lastArg = 0
  /\ lastRet = 0
  /\ lastBoard = <<>>
  /\ restarted = FALSE
  /\ commits = 0

Init ==
  InitWith([nn \in AllSizes |->
              IF nn = WideSize THEN WideInputs
              ELSE Inputs(nn, PuzzleCells(nn), MaxZeros)])

\* State::new(input, argN)
New ==
  /\ result = "none"
  /\ \E r \in { NewState(input, argN) } :
         /\ result' = r.tag
         /\ board' = r.board
         /\ n' = r.n
         /\ assignments' = r.assignments
  /\ lastOp' = "new"
  /\ UNCHANGED <<input, argN, pc, high_score, round, lastArg, lastRet,
                 lastBoard, restarted, commits>>

\* the arguments step is called with from outside hillclimb
StepArgs == 0..(Len(board) + 1)

\* state.random_start()
RandomStart ==
  /\ result = "Ok"
  /\ pc = "idle"
  /\ \E b \in RandomStartBoards(board, assignments) :
       /\ board' = b
       /\ lastRet' = score(b, n)
  /\ lastOp' = "random_start"
  /\ lastArg' = 0
  /\ lastBoard' = board
  /\ UNCHANGED <<input, argN, result, n, assignments, pc, high_score, round,
                 restarted, commits>>

\* state.step(start_score)
Step ==
  /\ result = "Ok"
  /\ pc = "idle"
  /\ \E start_score \in StepArgs :
       \E r \in { step(board, n, assignments, start_score) } :
           /\ board' = r.board
           /\ lastRet' = r.ret
           /\ lastArg' = start_score
  /\ lastOp' = "step"
  /\ lastBoard' = board
  /\ UNCHANGED <<input, argN, result, n, assignments, pc, high_score, round,
                 restarted, commits>>

\* a call of score() (by the caller, or by random_start at line 98 or
\* hillclimb at line 187) on a build that checks overflow: lines 107-108
\* panic, and the State is gone
ScoreOverflow ==
  /\ result = "Ok"
  /\ pc \in {"idle", "restart"}
  /\ Overflows(board)
  /\ result' = "Panic"
  /\ board' = <<>>
  /\ n' = 0
  /\ assignments' = <<>>
  /\ pc' = "idle"
  /\ high_score' = 0
  /\ round' = 0
  /\ lastOp' = "score"
  /\ lastArg' = 0
  /\ lastRet' = 0
  /\ lastBoard' = board
  /\ UNCHANGED <<input, argN, restarted, commits>>

\* hillclimb, line 187: let mut high_score = self.score()
HillclimbEnter ==
  /\ result = "Ok"
  /\ pc = "idle"
  /\ high_score' = score(board, n)
  /\ round' = 0
  /\ restarted' = FALSE
  /\ commits' = 0
  /\ pc' = "while"
  /\ UNCHANGED <<input, argN, result, board, n, assignments, lastOp, lastArg,
                 lastRet, lastBoard>>

\* HillclimbWhile with `if` for `while` at line 189: after one restart
\* cycle hillclimb returns
HillclimbWhileOnce ==
  /\ pc = "while"
  /\ IF high_score # max_score(board) /\ ~restarted
     THEN /\ pc' = "restart"
          /\ UNCHANGED <<lastOp, lastArg, lastRet, lastBoard>>
     ELSE /\ pc' = "idle"
          /\ lastOp' = "hillclimb"
          /\ lastArg' = 0
          /\ lastRet' = 0
          /\ lastBoard' = board
  /\ UNCHANGED <<input, argN, result, board, n, assignments, high_score,
                 round, restarted, commits>>

\* HillclimbWhile as a do-while: a restart cycle is run before the first
\* test of line 189
HillclimbWhileAfter ==
  /\ pc = "while"
  /\ IF high_score # max_score(board) \/ ~restarted
     THEN /\ pc' = "restart"
          /\ UNCHANGED <<lastOp, lastArg, lastRet, lastBoard>>
     ELSE /\ pc' = "idle"
          /\ lastOp' = "hillclimb"
          /\ lastArg' = 0
          /\ lastRet' = 0
          /\ lastBoard' = board
  /\ UNCHANGED <<input, argN, result, board, n, assignments, high_score,
                 round, restarted, commits>>

\* line 189: while high_score != self.max_score(); hillclimb returns when
\* the condition is false
HillclimbWhile ==
  /\ pc = "while"
  /\ IF high_score # max_score(board)
     THEN /\ pc' = "restart"
          /\ UNCHANGED <<lastOp, lastArg, lastRet, lastBoard>>
     ELSE /\ pc' = "idle"
          /\ lastOp' = "hillclimb"
          /\ lastArg' = 0
          /\ lastRet' = 0
          /\ lastBoard' = board
  /\ UNCHANGED <<input, argN, result, board, n, assignments, high_score,
                 round, restarted, commits>>

\* HillclimbRestartTo with the value random_start returns dropped at line
\* 191: high_score keeps the score of the board before the restart
HillclimbRestartKeepScore(b) ==
  /\ pc = "restart"
  /\ board' = b
  /\ lastRet' = score(b, n)
  /\ lastOp' = "random_start"
  /\ lastArg' = 0
  /\ lastBoard' = board
  /\ restarted' = TRUE
  /\ commits' = 0
  /\ pc' = "step"
  /\ UNCHANGED <<input, argN, result, n, assignments, round, high_score>>

\* line 191: high_score = self.random_start(), the draws leaving board b
HillclimbRestartTo(b) ==
  /\ pc = "restart"
  /\ board' = b
  /\ \E sc \in { score(b, n) } :
       /\ high_score' = sc
       /\ lastRet' = sc
  /\ lastOp' = "random_start"
  /\ lastArg' = 0
  /\ lastBoard' = board
  /\ restarted' = TRUE
  /\ commits' = 0
  /\ pc' = "step"
  /\ UNCHANGED <<input, argN, result, n, assignments, round>>

\* line 191, for any draws
HillclimbRestart ==
  /\ pc = "restart"
  /\ \E b \in RandomStartBoards(board, assignments) : HillclimbRestartTo(b)

\* line 193: let mut round = self.step(high_score)
HillclimbStep ==
  /\ pc = "step"
  /\ \E r \in { step(board, n, assignments, high_score) } :
         /\ board' = r.board
         /\ round' = r.ret
         /\ lastRet' = r.ret
         /\ commits' = IF r.board # board THEN commits + 1 ELSE commits
  /\ lastOp' = "step"
  /\ lastArg' = high_score
  /\ lastBoard' = board
  /\ pc' = "inner"
  /\ UNCHANGED <<input, argN, result, n, assignments, high_score, restarted>>

\* HillclimbInner with `round >= high_score` for the test of line 195
HillclimbInnerTies ==
  /\ pc = "inner"
  /\ IF round >= high_score
     THEN \E r \in { step(board, n, assignments, round) } :
              /\ high_score' = round
              /\ board' = r.board
              /\ round' = r.ret
              /\ lastRet' = r.ret
              /\ lastOp' = "step"
              /\ lastArg' = round
              /\ lastBoard' = board
              /\ commits' = IF r.board # board THEN commits + 1 ELSE commits
              /\ pc' = "inner"
     ELSE /\ pc' = "while"
          /\ commits' = 0
          /\ UNCHANGED <<board, high_score, round, lastOp, lastArg, lastRet,
                         lastBoard>>
  /\ UNCHANGED <<input, argN, result, n, assignments, restarted>>

\* lines 195-200: while round > high_score { high_score = round;
\* round = self.step(high_score) }
HillclimbInner ==
  /\ pc = "inner"
  /\ IF round > high_score
     THEN \E r \in { step(board, n, assignments, round) } :
              /\ high_score' = round
              /\ board' = r.board
              /\ round' = r.ret
              /\ lastRet' = r.ret
              /\ lastOp' = "step"
              /\ lastArg' = round
              /\ lastBoard' = board
              /\ commits' = IF r.board # board THEN commits + 1 ELSE commits
              /\ pc' = "inner"
     ELSE /\ pc' = "while"
          /\ commits' = 0
          /\ UNCHANGED <<board, high_score, round, lastOp, lastArg, lastRet,
                         lastBoard>>
  /\ UNCHANGED <<input, argN, result, n, assignments, restarted>>

Next ==
  \/ New
  \/ RandomStart
  \/ Step
  \/ ScoreOverflow
  \/ HillclimbEnter
  \/ HillclimbWhile
  \/ HillclimbRestart
  \/ HillclimbStep
  \/ HillclimbInner

Spec == Init /\ [][Next]_vars

\* construction alone, on inputs with any number of empty cells
InitNew ==
  InitWith([nn \in AllSizes |->
              IF nn = WideSize THEN WideInputs
              ELSE Inputs(nn, AllCells(nn), nn * nn)])

NextNew == New

SpecNew == InitNew /\ [][NextNew]_vars

\* construction alone, on inputs of the right length that may repeat values
InitAny ==
  InitWith([nn \in AllSizes |->
              IF nn = WideSize THEN WideInputs ELSE AnyInputs(nn)])

SpecAny == InitAny /\ [][NextNew]_vars

\* the tests' puzzle: construction, step from outside, and hillclimb
InitPuzzle == InitWith([nn \in AllSizes |-> IF nn = 3 THEN {PuzzleInput} ELSE {}])

NextPuzzle ==
  \/ New
  \/ Step
  \/ HillclimbEnter
  \/ HillclimbWhile
  \/ HillclimbRestart
  \/ HillclimbStep
  \/ HillclimbInner

SpecPuzzle == InitPuzzle /\ [][NextPuzzle]_vars

\* every board that agrees with b off the list asg and holds, on the cells
\* of asg, the values b holds there in some order
Arrangements(b, asg) ==
  { [i \in 1..Len(b) |->
       IF \E j \in 1..Len(asg) : asg[j] = i - 1
       THEN b[asg[pi[CHOOSE j \in 1..Len(asg) : asg[j] = i - 1]] + 1]
       ELSE b[i]] : pi \in Perms(Len(asg)) }

\* lines 195-200 after a step that returned r: the board the inner loop
\* leaves when it ends
RECURSIVE ClimbOn(_, _, _, _)
ClimbOn(r, nn, asg, hs) ==
  IF r.ret > hs THEN ClimbOn(step(r.board, nn, asg, r.ret), nn, asg, r.ret)
  ELSE r.board

\* lines 193-200 on board b: step until a call does not improve
Climb(b, nn, asg) == ClimbOn(step(b, nn, asg, score(b, nn)), nn, asg, score(b, nn))

\* the puzzle as State::new leaves it
PuzzleState == NewState(PuzzleInput, 3)

\* for every arrangement of the puzzle, whether lines 193-200 climb from
\* it to a board of maximal score
SolvingStarts ==
  [b \in Arrangements(PuzzleState.board, PuzzleState.assignments) |->
     \E c \in { Climb(b, PuzzleState.n, PuzzleState.assignments) } :
        score(c, PuzzleState.n) = max_score(c)]

\* line 191 with draws that leave such a board
HillclimbRestartSolving ==
  /\ HillclimbRestart
  /\ board' \in DOMAIN SolvingStarts
  /\ SolvingStarts[board']

\* hillclimb runs on (single thread, no suspension), and the draws of the
\* random generator are fair: draws that are possible again and again are
\* made eventually
FairPuzzle ==
  /\ WF_vars(HillclimbWhile)
  /\ WF_vars(HillclimbStep)
  /\ WF_vars(HillclimbInner)
  /\ SF_vars(HillclimbRestartSolving)

\* hillclimb alone on the puzzle, under these conditions
NextPuzzleClimb ==
  \/ New
  \/ HillclimbEnter
  \/ HillclimbWhile
  \/ HillclimbRestart
  \/ HillclimbStep
  \/ HillclimbInner

SpecPuzzleFair == InitPuzzle /\ [][NextPuzzleClimb]_vars /\ FairPuzzle

----------------------------------------------------------------------------
(* Vocabulary of the properties, independent of the definitions above *)

IsPermutation(b, nn) == Len(b) = nn * nn /\ Range(b) = 1..(nn * nn)

\* the values of 1..nn*nn that do not occur in the input
Missing(in, nn) == (1..(nn * nn)) \ Range(in)

\* the 0-based indices of the zeros of the input
ZeroIdx(in) == { i - 1 : i \in { j \in 1..Len(in) : in[j] = 0 } }

\* the i-th smallest element of a set of numbers
NthSmallest(S, i) == CHOOSE x \in S : Cardinality({ y \in S : y < x }) = i - 1

\* the 0-based index of the cell holding v
PosOf(b, v) == CHOOSE idx \in 0..(Len(b) - 1) : b[idx + 1] = v

Abs(x) == IF x < 0 THEN -x ELSE x

\* king's-move adjacency of the cells idx and jdx of a board of width nn
KingAdjacent(idx, jdx, nn) ==
  /\ Abs((idx \div nn) - (jdx \div nn)) <= 1
  /\ Abs((idx % nn) - (jdx % nn)) <= 1

\* the k whose cell and the cell of k+1 are king's-move adjacent
AdjacentValues(b, nn) ==
  { k \in 1..(nn * nn - 1) : KingAdjacent(PosOf(b, k), PosOf(b, k + 1), nn) }

IsKingsPath(b, nn) == AdjacentValues(b, nn) = 1..(nn * nn - 1)

\* k and k+1 sit at the end of one row and the start of the next
WrapsAround(b, nn) ==
  \E k \in 1..(nn * nn - 1) :
    \E idx \in 0..(Len(b) - 2) :
      /\ idx % nn = nn - 1
      /\ {b[idx + 1], b[idx + 2]} = {k, k + 1}

SetMax(S) == CHOOSE x \in S : \A y \in S : y <= x

\* the pairs <<p, q>> of positions of the list asg with p before q
ListPairs(asg) ==
  { pq \in (1..Len(asg)) \X (1..Len(asg)) : pq[1] < pq[2] }

\* the score of board b with the values at entries p and q of asg exchanged
SwappedScore(b, nn, asg, pq) ==
  score(Swap(b, asg[pq[1]], asg[pq[2]]), nn)

\* the best score among s and all single exchanges
BestScore(b, nn, asg, s) ==
  SetMax({s} \cup { SwappedScore(b, nn, asg, pq) : pq \in ListPairs(asg) })

\* the exchanges that reach the score best
Winners(b, nn, asg, best) ==
  { pq \in ListPairs(asg) : SwappedScore(b, nn, asg, pq) = best }

\* the first of a set of pairs in scan order (outer p, inner q)
FirstPair(W) ==
  CHOOSE pq \in W :
    \A o \in W : pq[1] < o[1] \/ (pq[1] = o[1] /\ pq[2] <= o[2])

\* the 0-based indices at which two boards of one length differ
Changed(a, b) == { i - 1 : i \in { j \in 1..Len(a) : a[j] # b[j] } }

PuzzleBoard == <<3, 4, 1, 5, 2, 6, 9, 7, 8>>
SteppedBoard == <<3, 5, 1, 4, 2, 6, 9, 7, 8>>
SolvedBoard == <<3, 4, 1, 8, 2, 5, 9, 7, 6>>

----------------------------------------------------------------------------
(* Properties *)

\* C1 as stated, for every n: a constructed board is a permutation of
\* 1..n*n, and stays one under random_start and step (any argument) and
\* hillclimb; the mutable positions hold exactly the values missing from
\* the input.
C1_ForEveryN ==
  result = "Ok" =>
    /\ IsPermutation(board, n)
    /\ { board[a + 1] : a \in Range(assignments) } = Missing(input, n)

\* C1, amended: for n*n <= 255 a constructed board is a permutation of
\* 1..n*n, and stays one under random_start and step (any argument) and
\* hillclimb; the mutable positions hold exactly the values missing from
\* the input.
C1_BoardIsPermutation ==
  result = "Ok" /\ n * n < U8 =>
    /\ IsPermutation(board, n)
    /\ { board[a + 1] : a \in Range(assignments) } = Missing(input, n)

\* a random_start that changed the board of a constructed state
C1_Witness ==
  /\ result = "Ok"
  /\ n * n < U8
  /\ lastOp = "random_start"
  /\ board # lastBoard
  /\ IsPermutation(board, n)

\* C2: every cell given nonzero keeps its input value in every state; the
\* mutable-position list is the ascending list of the input's zero indices
\* and never changes; every swap step or random_start can make targets
\* two entries of that list.
C2_FixedCellsKept ==
  result = "Ok" =>
    /\ \A i \in 1..Len(input) : input[i] # 0 => board[i] = input[i]
    /\ Range(assignments) = ZeroIdx(input)
    /\ \A i, j \in 1..Len(assignments) :
         i < j => assignments[i] < assignments[j]
    /\ \A i \in 1..Len(Pairs(assignments)) :
         Range(Pairs(assignments)[i]) \subseteq ZeroIdx(input)
    /\ \A swaps \in SwapSeqs(Len(assignments) - 1) :
         \A idx1 \in 0..(Len(swaps) - 1) :
           Range(SwapTargets(assignments, idx1, swaps[idx1 + 1]))
             \subseteq ZeroIdx(input)

\* a call changed a board that has fixed cells
C2_Witness ==
  /\ result = "Ok"
  /\ lastOp \in {"random_start", "step"}
  /\ board # lastBoard
  /\ \E i \in 1..Len(input) : input[i] # 0 /\ board[i] = input[i]

\* C3: State::new returns BoardLength exactly when the length is not n*n,
\* whatever the values are, and returns no State then.
C3_LengthError ==
  result # "none" =>
    /\ (result = "Err") <=> (Len(input) # argN * argN)
    /\ result = "Err" => board = <<>> /\ assignments = <<>> /\ n = 0

\* BoardLength returned for an input holding a value above n*n
C3_Witness ==
  /\ result = "Err"
  /\ \E i \in 1..Len(input) : input[i] > argN * argN

\* C4 as stated, for every n: State::new gives the i-th empty cell in scan
\* order the i-th smallest missing value and leaves every nonzero cell as
\* given.
C4_ForEveryN ==
  result = "Ok" /\ lastOp = "new" =>
    \A i \in 1..Len(input) :
      board[i] = IF input[i] # 0
                 THEN input[i]
                 ELSE NthSmallest(Missing(input, argN),
                        Cardinality({ j \in 1..i : input[j] = 0 }))

\* C4, amended: for n*n <= 255 State::new gives the i-th empty cell in scan
\* order the i-th smallest missing value and leaves every nonzero cell as
\* given; the tests' puzzle becomes [3,4,1,5,2,6,9,7,8].
C4_DeterministicFill ==
  result = "Ok" /\ lastOp = "new" /\ argN * argN < U8 =>
    /\ \A i \in 1..Len(input) :
         board[i] = IF input[i] # 0
                    THEN input[i]
                    ELSE NthSmallest(Missing(input, argN),
                           Cardinality({ j \in 1..i : input[j] = 0 }))
    /\ input = PuzzleInput => board = PuzzleBoard

\* the tests' puzzle, constructed
C4_Witness ==
  /\ result = "Ok"
  /\ lastOp = "new"
  /\ input = PuzzleInput
  /\ board = PuzzleBoard

\* C5: score() is the number of k whose cell and the cell of k+1 are
\* king's-move adjacent (no wrap-around between rows); it lies in
\* 0..max_score() = n*n-1 and reaches n*n-1 exactly on a king's path.
C5_ScoreCountsAdjacentPairs ==
  result = "Ok" /\ IsPermutation(board, n) =>
    /\ score(board, n) = Cardinality(AdjacentValues(board, n))
    /\ max_score(board) = n * n - 1
    /\ score(board, n) \in 0..max_score(board)
    /\ (score(board, n) = max_score(board)) <=> IsKingsPath(board, n)
    /\ board = PuzzleBoard => score(board, n) = 6
    /\ board = SolvedBoard => score(board, n) = 8

\* a board with consecutive values across a row boundary, not solved
C5_Witness ==
  /\ result = "Ok"
  /\ WrapsAround(board, n)
  /\ score(board, n) < max_score(board)
  /\ score(board, n) = Cardinality(AdjacentValues(board, n))

\* C6: step(s) never returns less than s, for any board and any s.
C6_StepNotBelowArgument ==
  lastOp = "step" => lastRet >= lastArg

\* step called with an argument below the board's score, with a swap made
C6_Witness ==
  /\ lastOp = "step"
  /\ lastArg < score(lastBoard, n)
  /\ lastRet >= lastArg
  /\ board # lastBoard

\* C7: called with the board's true score, step returns the score of the
\* board it leaves; if it returns its argument the board is unchanged, and
\* if it returns more the board differs by one swap of two mutable cells.
C7_StepReturnsScoreOfBoard ==
  lastOp = "step" /\ lastArg = score(lastBoard, n) =>
    /\ lastRet = score(board, n)
    /\ lastRet = lastArg => board = lastBoard
    /\ lastRet > lastArg =>
         /\ board # lastBoard
         /\ \E pq \in ListPairs(assignments) :
              board = Swap(lastBoard, assignments[pq[1]], assignments[pq[2]])

\* an improving step from the true score
C7_Witness ==
  /\ lastOp = "step"
  /\ lastArg = score(lastBoard, n)
  /\ lastRet > lastArg
  /\ lastRet = score(board, n)

\* C8: called with the true score, step returns the maximum of that score
\* and the scores of all single swaps of two mutable cells, and when the
\* maximum is an improvement it commits the first pair in scan order that
\* reaches it.
C8_BestImprovementFirstPair ==
  lastOp = "step" /\ lastArg = score(lastBoard, n) =>
    /\ lastRet = BestScore(lastBoard, n, assignments, lastArg)
    /\ lastRet > lastArg =>
         \E pq \in { FirstPair(Winners(lastBoard, n, assignments, lastRet)) } :
           board = Swap(lastBoard, assignments[pq[1]], assignments[pq[2]])

\* an improving step where several pairs reach the maximum and the first
\* one was committed
C8_Witness ==
  /\ lastOp = "step"
  /\ lastArg = score(lastBoard, n)
  /\ lastRet > lastArg
  /\ Cardinality(Winners(lastBoard, n, assignments, lastRet)) >= 2
  /\ \E pq \in { FirstPair(Winners(lastBoard, n, assignments, lastRet)) } :
       board = Swap(lastBoard, assignments[pq[1]], assignments[pq[2]])

\* C9: one call of random_start can leave the mutable values in every
\* arrangement over the mutable cells, whatever the board was.
C9_EveryArrangementReachable ==
  result = "Ok" =>
    Arrangements(board, assignments)
      \subseteq RandomStartBoards(board, assignments)

\* C10: whenever hillclimb returns, score() = max_score() = n*n-1 and the
\* board is a king's path.
C10_HillclimbReturnsSolved ==
  lastOp = "hillclimb" =>
    /\ score(board, n) = max_score(board)
    /\ max_score(board) = n * n - 1
    /\ IsKingsPath(board, n)

\* hillclimb returned after at least one restart
C10_Witness ==
  /\ lastOp = "hillclimb"
  /\ restarted
  /\ IsKingsPath(board, n)

\* some draws of random_start on the board lead to a board of maximal score
C11_SolvingDrawsExist ==
  \E b \in RandomStartBoards(board, assignments) :
      b \in DOMAIN SolvingStarts /\ SolvingStarts[b]

\* C11: on the tests' puzzle, whenever hillclimb is about to restart some
\* draws lead to a board of maximal score, and under fair random draws a
\* running hillclimb always returns, with score = max_score.
C11_PuzzleHillclimbReturns ==
  /\ [][pc' = "restart" => C11_SolvingDrawsExist']_vars
  /\ (pc # "idle") ~>
       (pc = "idle" /\ lastOp = "hillclimb"
          /\ score(board, n) = max_score(board))

\* hillclimb returned on the puzzle, after at least one restart, with the
\* solution the tests name
C11_Witness ==
  /\ input = PuzzleInput
  /\ lastOp = "hillclimb"
  /\ restarted
  /\ board = SolvedBoard
  /\ score(board, n) = max_score(board)

\* C12 as stated: one step on the constructed puzzle board, called with
\* its score 6, returns 7 and leaves [3,5,1,4,2,6,9,7,8], the cells changed
\* being positions 3 and 5 (counted from 0 or from 1).
C12_SwapsPositions3And5 ==
  (lastOp = "step" /\ lastBoard = PuzzleBoard /\ lastArg = score(PuzzleBoard, n)) =>
    /\ lastArg = 6
    /\ lastRet = 7
    /\ board = SteppedBoard
    /\ \/ Changed(lastBoard, board) = {3, 5}
       \/ { i + 1 : i \in Changed(lastBoard, board) } = {3, 5}

\* C12: one step on the constructed puzzle board, called with its score 6,
\* returns 7 = score of the new board and leaves [3,5,1,4,2,6,9,7,8]: the
\* values 4 and 5 at the 0-based indices 1 and 3 are exchanged.
C12_StepOnPuzzleBoard ==
  (lastOp = "step" /\ lastBoard = PuzzleBoard /\ lastArg = score(PuzzleBoard, n)) =>
    /\ lastArg = 6
    /\ lastRet = 7
    /\ score(board, n) = 7
    /\ board = SteppedBoard
    /\ Changed(lastBoard, board) = {1, 3}
    /\ board = Swap(lastBoard, 1, 3)
    /\ {lastBoard[2], lastBoard[4]} = {4, 5}

\* step was called on the board constructed from the puzzle, with its score
C12_Witness ==
  /\ input = PuzzleInput
  /\ lastOp = "step"
  /\ lastBoard = PuzzleBoard
  /\ lastBoard = PuzzleState.board
  /\ lastArg = 6
  /\ pc = "idle"

\* a call of step by hillclimb has returned (lines 193 and 198): lastArg is
\* its input, lastRet = round the score it returned
C13_StepReturned ==
  /\ lastOp = "step"
  /\ lastArg = high_score
  /\ lastRet = round
  /\ \/ /\ round > high_score
        /\ board # lastBoard
        /\ score(board, n) > score(lastBoard, n)
     \/ /\ round = high_score
        /\ board = lastBoard
  /\ commits <= n * n - 1
  /\ commits <= score(board, n)

\* what hillclimb does next when a call of step has returned
C13_AfterStep ==
  \/ /\ round > high_score
     /\ pc' = "inner"
     /\ lastOp' = "step"
     /\ lastArg' = round
     /\ lastBoard' = board
  \/ /\ round = high_score
     /\ pc' = "while"
     /\ board' = board
     /\ high_score' = high_score

\* the outer test of line 189 on the score the stepping loop ended with
C13_AfterLoop ==
  /\ board' = board
  /\ IF high_score = n * n - 1 THEN pc' = "idle" ELSE pc' = "restart"

\* C13: inside hillclimb every step call returns either more than its
\* input, and then the board's score has grown and step is called again, or
\* exactly its input, and then the board is unchanged, no further step is
\* made before the next restart and the score is compared with n*n-1; a
\* stepping loop applies at most n*n-1 swaps and always ends.
C13_SteppingLoop ==
  /\ [][pc' = "inner" => C13_StepReturned']_vars
  /\ [][pc = "inner" => C13_AfterStep]_vars
  /\ [][pc = "while" => C13_AfterLoop]_vars
  /\ []<>(pc \notin {"step", "inner"})

\* a stepping loop that applied two swaps or more has reached its plateau
C13_Witness ==
  /\ pc = "inner"
  /\ restarted
  /\ commits >= 2
  /\ round = high_score
  /\ high_score # max_score(board)

\* the board has the score n*n-1
C14_Solved == result = "Ok" /\ score(board, n) = n * n - 1

\* C14: once the board's score is n*n-1 inside a run of hillclimb, on entry
\* included, the board is never changed again in that run and no restart
\* is made; a board about to be shuffled by a restart is never solved.
C14_SolvedIsTerminal ==
  [][/\ (pc # "idle" /\ C14_Solved) =>
          /\ board' = board
          /\ pc' \in {"inner", "while", "idle"}
          /\ lastOp' # "random_start"
     /\ pc' = "restart" => ~C14_Solved']_vars

\* hillclimb was called on a solved board and returned without a restart
C14_Witness ==
  /\ lastOp = "hillclimb"
  /\ ~restarted
  /\ C14_Solved
  /\ n > 1

\* the indices into the list asg that random_start uses at lines 94-95
\* (idx1 and idx2 + idx1), over every vector of draws
C15_ListIndices(asg) ==
  UNION { UNION { { idx1, swaps[idx1 + 1] + idx1 } :
                    idx1 \in 0..(Len(swaps) - 1) } :
            swaps \in SwapSeqs(Len(asg) - 1) }

\* C15: after a valid construction with n*n <= 255 nothing panics: in every
\* state reached by random_start, step and hillclimb no cell holds 0 and
\* goal - 1 and goal + 1 are u8 values for every cell, every list index
\* random_start uses is inside the list, for lists of any length, and
\* every entry of the list is an index of the board.
C15_NoFailure ==
  argN * argN < U8 =>
    /\ result # "Panic"
    /\ result = "Ok" =>
         /\ \A i \in 1..Len(board) :
              /\ board[i] # 0
              /\ board[i] - 1 \in 0..(U8 - 1)
              /\ board[i] + 1 \in 0..(U8 - 1)
         /\ ~Overflows(board)
         /\ C15_ListIndices(assignments) \subseteq 0..(Len(assignments) - 1)
         /\ \A j \in 1..Len(assignments) :
              assignments[j] \in 0..(Len(board) - 1)

\* random_start returned on a board of width 2 or 3 without mutable cells
C15_Witness ==
  /\ result = "Ok"
  /\ n > 1
  /\ Len(assignments) = 0
  /\ lastOp = "random_start"
  /\ lastRet = score(board, n)

\* C16: whenever hillclimb calls step (lines 193 and 198) the argument is
\* the score of the board at that moment, and whenever the test of line
\* 189 is evaluated high_score is the score of the board.
C16_HillclimbPassesTrueScore ==
  /\ pc = "step" => high_score = score(board, n)
  /\ pc = "inner" =>
       /\ lastOp = "step"
       /\ lastArg = score(lastBoard, n)
       /\ round > high_score => round = score(board, n)
  /\ pc = "while" => high_score = score(board, n)

\* after a restart, a step call of hillclimb has improved the board and the
\* next call is about to be made with the new score
C16_Witness ==
  /\ pc = "inner"
  /\ restarted
  /\ round > high_score
  /\ round = score(board, n)
  /\ lastArg = score(lastBoard, n)

\* the value at the last entry of the list of mutable positions
C17_LastValue(b) == b[assignments[Len(assignments)] + 1]

\* what holds when random_start has returned: lastBoard is the board it
\* was called on
C17_AfterRandomStart ==
  /\ C15_ListIndices(assignments) \subseteq 0..(Len(assignments) - 2)
  /\ Len(assignments) >= 1 => C17_LastValue(board) = C17_LastValue(lastBoard)
  /\ Len(assignments) <= 2 => board = lastBoard

\* C17: random_start never changes the value at the last entry of the list
\* of mutable positions (its list indices are at most k-2 for a list of k
\* entries), it leaves a board with at most 2 mutable positions unchanged,
\* and inside hillclimb that value changes only in a step call that
\* applies a swap.
C17_LastMutableKept ==
  [][/\ lastOp' = "random_start" => C17_AfterRandomStart'
     /\ (/\ pc # "idle"
         /\ result' = "Ok"
         /\ Len(assignments) >= 1
         /\ C17_LastValue(board') # C17_LastValue(board)) =>
           /\ lastOp' = "step"
           /\ board' # board
           /\ commits' = commits + 1]_vars

\* a restart inside hillclimb has changed a board with three mutable
\* positions
C17_Witness ==
  /\ pc = "step"
  /\ lastOp = "random_start"
  /\ Len(assignments) = 3
  /\ board # lastBoard
  /\ C17_LastValue(board) = C17_LastValue(lastBoard)

\* the nonzero entries of the input are pairwise distinct
C18_NonzeroDistinct(in) ==
  \A i, j \in 1..Len(in) : (in[i] # 0 /\ in[i] = in[j]) => i = j

\* State::new has returned on an input of length n*n with entries in 0..n*n
C18_RightLength ==
  /\ lastOp = "new"
  /\ Len(input) = argN * argN
  /\ \A i \in 1..Len(input) : input[i] \in 0..(argN * argN)

\* what C18 says of such an input
C18_Accepted ==
  /\ result = "Ok"
  /\ \A i \in 1..Len(board) : board[i] # 0
  /\ IsPermutation(board, n) <=> C18_NonzeroDistinct(input)

\* C18 as stated, for every n: an input of length n*n with entries in
\* 0..n*n is accepted, the board returned holds no 0, and it is a
\* permutation of 1..n*n exactly if the nonzero entries are distinct.
C18_ForEveryN == C18_RightLength => C18_Accepted

\* C18: for n*n <= 255, an input of length n*n with entries in 0..n*n is
\* accepted (the fill cursor stays within n*n), the board returned holds no
\* 0, and it is a permutation of 1..n*n exactly if the nonzero entries of
\* the input are pairwise distinct.
C18_OnlyLengthValidated ==
  (C18_RightLength /\ argN * argN < U8) => C18_Accepted

\* an input with a repeated nonzero value was accepted, and the board is
\* not a permutation
C18_Witness ==
  /\ C18_RightLength
  /\ argN * argN < U8
  /\ ~C18_NonzeroDistinct(input)
  /\ result = "Ok"
  /\ ~IsPermutation(board, n)
  /\ \A i \in 1..Len(board) : board[i] # 0

====
